---- MODULE Spec2Model ----
(***************************************************************************)
(* Model of py-exe_bundler.py: the Tk form (AppConverterGUI), the worker   *)
(* thread started by start_conversion (convert_app), the relay queue and   *)
(* the timer-driven poll loop (check_queue), together with the part of the *)
(* file system the pipeline reads and writes.                              *)
(***************************************************************************)
EXTENDS Integers, Sequences, FiniteSets, TLC

(* ------------------------------ bounds --------------------------------- *)

\* Number of start presses that are accepted in one session.
MaxConv == 2

\* Number of times the user edits the form in one session.
MaxEdits == 1

\* Number of events the relay queue holds at most (the queue of the program
\* is unbounded: a put that would exceed this is not explored).
MaxQueue == 5

Conv == 1..MaxConv

(* --------------------------- value domains ------------------------------ *)

\* Directory entries are (stem, extension) pairs; f.endswith('.exe') and
\* f.endswith('.py') compare the extension exactly (case sensitive).
File(s, e) == [stem |-> s, ext |-> e]

NoFile == File("", "")

\* temp_script = os.path.join(source_path, "launcher.py")
LauncherName == File("launcher", "py")

\* The contents the source directory may have when the session starts: a
\* file that is neither a script nor an executable, one script, and a
\* script listed before two executables.
InitListings ==
    { <<File("readme", "txt")>>,
      <<File("main", "py")>>,
      <<File("main", "py"), File("app", "exe"), File("tool", "exe")>> }

\* Text of the source entry: empty, a path that does not exist, the source
\* directory.  Text of the output entry: empty, the output directory.
SourceTexts == {"", "nosuch", "src"}

OutputTexts == {"", "out"}

Forms == [source : SourceTexts, output : OutputTexts, window : BOOLEAN]

\* A relay event (kind, payload) as put on self.queue; conv is the run of
\* convert_app that put it.  The payload of log, error, success and done
\* events is the source line of the put, that of progress the percentage.
Ev(k, v, c) == [kind |-> k, val |-> v, conv |-> c]

VARIABLES
    form,           \* source_path / output_path / window_var of the form
    is_converting,  \* self.is_converting
    button,         \* state of self.convert_button
    pollTimers,     \* pending window.after(100, self.check_queue) callbacks
    progress_var,   \* self.progress_var
    queue,          \* self.queue
    worker,         \* per run of convert_app: position and locals
    nconv,          \* start presses accepted so far
    nedits,         \* form edits made so far
    reenabled,      \* executions of check_queue lines 251-252
    destroyTimer,   \* run that scheduled window.after(2000, destroy), or 0
    destroyed,      \* the window was destroyed (mainloop has returned)
    depInstalled,   \* os.path.exists(dep_path)
    srcDir,         \* os.listdir(source directory), in listing order
    stubContent,    \* what launcher.py launches: target and kind
    outExists,      \* os.path.exists(output directory)
    buildExists,    \* output/build exists
    specExists,     \* output/launcher.spec exists
    artifactExists, \* the single-file executable exists in output
    posted,         \* per run: the events it has put, in order
    consumed,       \* per run: its events check_queue has taken, in order
    consumedIn,     \* pairs <<run that put an event, run current at its get>>
    widgetCalls     \* threads that have called into Tk widgets

vars == << form, is_converting, button, pollTimers, progress_var, queue,
           worker, nconv, nedits, reenabled, destroyTimer, destroyed,
           depInstalled, srcDir, stubContent, outExists, buildExists,
           specExists, artifactExists, posted, consumed, consumedIn,
           widgetCalls >>

uiVars == << is_converting, button, pollTimers, progress_var, reenabled >>

fsVars == << depInstalled, srcDir, stubContent, outExists, buildExists,
             specExists, artifactExists >>

(* ------------------------------ helpers --------------------------------- *)

\* A scan that collects the matching entries from the end of the listing.
FilterReversed(listing, e) ==
    LET n   == Len(listing)
        rev == [i \in 1..n |-> listing[n + 1 - i]]
    IN  SelectSeq(rev, LAMBDA f : f.ext = e)

\* A scan that does not look at the extension keeps every entry.
FilterAll(listing, e) == listing

RECURSIVE Filter(_, _)
\* [f for f in listing if f.endswith('.' + e)]
Filter(listing, e) ==
    IF listing = << >> THEN << >>
    ELSE IF Head(listing).ext = e
         THEN <<Head(listing)>> \o Filter(Tail(listing), e)
         ELSE Filter(Tail(listing), e)

Contains(listing, f) == \E i \in 1..Len(listing) : listing[i] = f

RECURSIVE Remove(_, _)
\* os.remove: the listing without entry f
Remove(listing, f) ==
    IF listing = << >> THEN << >>
    ELSE IF Head(listing) = f THEN Remove(Tail(listing), f)
         ELSE <<Head(listing)>> \o Remove(Tail(listing), f)

\* The listing after entry f was created at position i (listing order is
\* the file system's choice).
InsertAt(listing, i, f) ==
    SubSeq(listing, 1, i - 1) \o <<f>> \o SubSeq(listing, i, Len(listing))

RECURSIVE CountKind(_, _)
CountKind(evs, k) ==
    IF evs = << >> THEN 0
    ELSE (IF Head(evs).kind = k THEN 1 ELSE 0) + CountKind(Tail(evs), k)

HasKind(evs, k) == \E i \in 1..Len(evs) : evs[i].kind = k

IsPrefix(s, t) == Len(s) <= Len(t) /\ SubSeq(t, 1, Len(s)) = s

\* self.queue.put(...) of each event of evs by run c, in order.
Put(c, evs) ==
    /\ Len(queue) + Len(evs) <= MaxQueue
    /\ queue' = queue \o evs
    /\ posted' = [posted EXCEPT ![c] = @ \o evs]

Goto(c, p) == worker' = [worker EXCEPT ![c].pc = p]

\* The thread of run c has been started and has not ended.  The record of
\* a run that has ended is dropped ("collected") at the next start press.
Alive(c) == worker[c].pc \notin {"idle", "exited", "collected"}

InitWorker ==
    [ pc          |-> "idle",
      request     |-> [source |-> "", output |-> "", window |-> FALSE],
      source_path |-> "",
      output_path |-> "",
      main_file   |-> NoFile,
      is_python   |-> FALSE,
      args        |-> << >>,
      installed   |-> FALSE,
      wroteStub   |-> FALSE,
      bundlerRuns |-> 0,
      bundlerOk   |-> FALSE,
      bundlerFailed |-> FALSE ]

(* ------------------------------- Init ----------------------------------- *)

\* AppConverterGUI.__init__ (lines 47-138): the queue is empty,
\* is_converting is False, the button is enabled, the entries hold the
\* default folders and the check box is off.  The dependency may be there
\* or not, the source folder has some content, and the output folder may
\* have been removed since it was created.
Init ==
    /\ form = [source |-> "src", output |-> "out", window |-> FALSE]
    /\ is_converting = FALSE
    /\ button = "normal"
    /\ pollTimers = 0
    /\ progress_var = 0
    /\ queue = << >>
    /\ worker = [c \in Conv |-> InitWorker]
    /\ nconv = 0
    /\ nedits = 0
    /\ reenabled = 0
    /\ destroyTimer = 0
    /\ destroyed = FALSE
    /\ depInstalled \in BOOLEAN
    /\ srcDir \in InitListings
    /\ stubContent = [target |-> NoFile, is_python |-> FALSE]
    /\ outExists \in BOOLEAN
    /\ buildExists = FALSE
    /\ specExists = FALSE
    /\ artifactExists = FALSE
    /\ posted = [c \in Conv |-> << >>]
    /\ consumed = [c \in Conv |-> << >>]
    /\ consumedIn = {}
    /\ widgetCalls = {}

(* ------------------------- the UI thread -------------------------------- *)

\* start_conversion, lines 217-232.  A press is accepted when is_converting
\* is False (line 218); the button then is in state normal.  The accepted
\* press starts the thread of run nconv + 1 and schedules check_queue.  The
\* records kept of runs whose thread has ended are dropped.
StartConversion ==
    /\ ~destroyed
    /\ nconv < MaxConv
    /\ button = "normal"
    /\ ~is_converting
    /\ is_converting' = TRUE
    /\ button' = "disabled"
    /\ nconv' = nconv + 1
    /\ worker' = [d \in Conv |->
                    IF d = nconv + 1
                    THEN [InitWorker EXCEPT !.pc = "deps", !.request = form]
                    ELSE IF worker[d].pc = "exited"
                    THEN [InitWorker EXCEPT !.pc = "collected"]
                    ELSE worker[d]]
    /\ posted' = [d \in Conv |->
                    IF worker[d].pc = "exited" THEN << >> ELSE posted[d]]
    /\ consumed' = [d \in Conv |->
                    IF worker[d].pc = "exited" THEN << >> ELSE consumed[d]]
    /\ pollTimers' = pollTimers + 1
    /\ widgetCalls' = widgetCalls \cup {"ui"}
    /\ UNCHANGED << form, progress_var, queue, nedits, reenabled,
                    destroyTimer, destroyed, consumedIn >>
    /\ UNCHANGED fsVars

\* Position of the first done event of q, 0 when it holds none.
FirstDone(q) ==
    IF HasKind(q, "done")
    THEN CHOOSE i \in 1..Len(q) :
            /\ q[i].kind = "done"
            /\ \A j \in 1..(i - 1) : q[j].kind # "done"
    ELSE 0

\* A check_queue that lacks the return of line 253 keeps taking events
\* until the queue is empty.
TakeCountNoReturn(q) == Len(q)

\* How many events one call of check_queue takes from q: the loop of lines
\* 236-255 runs until get_nowait raises Empty or a done event returns.
TakeCount(q) == IF FirstDone(q) > 0 THEN FirstDone(q) ELSE Len(q)

RECURSIVE OfConv(_, _)
OfConv(evs, c) ==
    IF evs = << >> THEN << >>
    ELSE IF Head(evs).conv = c THEN <<Head(evs)>> \o OfConv(Tail(evs), c)
         ELSE OfConv(Tail(evs), c)

RECURSIVE LastProgress(_, _)
\* update_progress for each progress event of evs, starting from value v.
LastProgress(evs, v) ==
    IF evs = << >> THEN v
    ELSE LastProgress(Tail(evs),
                      IF Head(evs).kind = "progress" THEN Head(evs).val ELSE v)

\* check_queue, lines 234-259, as one timer callback: it takes events from
\* the queue in order, handles each, stops at a done event (re-enabling the
\* start control, no new timer) and otherwise, on Empty, schedules itself
\* again while is_converting is set.
CheckQueue ==
    /\ ~destroyed
    /\ pollTimers > 0
    /\ LET n     == TakeCount(queue)
           taken == SubSeq(queue, 1, n)
           dones == CountKind(taken, "done")
       IN  /\ queue' = SubSeq(queue, n + 1, Len(queue))
           /\ consumed' = [c \in Conv |-> consumed[c] \o OfConv(taken, c)]
           /\ consumedIn' = consumedIn \cup
                              { <<taken[i].conv, nconv>> : i \in 1..n }
           /\ progress_var' = LastProgress(taken, progress_var)
           /\ reenabled' = reenabled + dones
           /\ is_converting' = IF dones > 0 THEN FALSE ELSE is_converting
           /\ button' = IF dones > 0 THEN "normal" ELSE button
           /\ pollTimers' = IF dones = 0 /\ is_converting
                            THEN pollTimers
                            ELSE pollTimers - 1
           /\ widgetCalls' = IF n > 0 THEN widgetCalls \cup {"ui"}
                             ELSE widgetCalls
    /\ UNCHANGED << form, worker, nconv, nedits, destroyTimer, destroyed,
                    posted >>
    /\ UNCHANGED fsVars

\* The user types or browses a new source folder (browse_source, 195-204).
SetSource ==
    /\ ~destroyed
    /\ nedits < MaxEdits
    /\ \E s \in SourceTexts \ {form.source} :
          form' = [form EXCEPT !.source = s]
    /\ nedits' = nedits + 1
    /\ widgetCalls' = widgetCalls \cup {"ui"}
    /\ UNCHANGED << queue, worker, nconv, destroyTimer, destroyed, posted,
                    consumed, consumedIn >>
    /\ UNCHANGED uiVars
    /\ UNCHANGED fsVars

\* The user types or browses a new output folder (browse_output, 206-215).
SetOutput ==
    /\ ~destroyed
    /\ nedits < MaxEdits
    /\ \E s \in OutputTexts \ {form.output} :
          form' = [form EXCEPT !.output = s]
    /\ nedits' = nedits + 1
    /\ widgetCalls' = widgetCalls \cup {"ui"}
    /\ UNCHANGED << queue, worker, nconv, destroyTimer, destroyed, posted,
                    consumed, consumedIn >>
    /\ UNCHANGED uiVars
    /\ UNCHANGED fsVars

\* The user toggles the window-mode check box (window_var, lines 90-92).
ToggleWindow ==
    /\ ~destroyed
    /\ nedits < MaxEdits
    /\ form' = [form EXCEPT !.window = ~@]
    /\ nedits' = nedits + 1
    /\ widgetCalls' = widgetCalls \cup {"ui"}
    /\ UNCHANGED << queue, worker, nconv, destroyTimer, destroyed, posted,
                    consumed, consumedIn >>
    /\ UNCHANGED uiVars
    /\ UNCHANGED fsVars

\* The callback of window.after(2000, self.window.destroy), line 180.  The
\* timer is twenty poll periods long and the done of the run that set it is
\* put right after it is set, so that done has been taken when it fires.
\* mainloop returns and the process, daemon threads included, ends.
Destroy ==
    /\ ~destroyed
    /\ destroyTimer # 0
    /\ ~Alive(destroyTimer)
    /\ OfConv(queue, destroyTimer) = << >>
    /\ destroyed' = TRUE
    /\ UNCHANGED << form, queue, worker, nconv, nedits, destroyTimer, posted,
                    consumed, consumedIn, widgetCalls >>
    /\ UNCHANGED uiVars
    /\ UNCHANGED fsVars

(* ------------------------ the worker thread ----------------------------- *)

\* convert_app, lines 261-458, runs on its own thread.  A step of the thread
\* is one access to the form, to the file system or to a blocking call,
\* together with the puts that follow it up to the next such access; after
\* a return or a raise these are the puts of the handler of line 451 and of
\* the finally clause, and the thread ends with the step.

\* The thread that runs the console insert of self.log when it is called
\* from ensure_dependencies (lines 143, 153, 167, 179): log is called there
\* directly, on the thread that runs convert_app.
DependencyLogThread == "worker"

\* A handler that logs the exception and puts no error event.
ExceptEventsNoError(c) == << Ev("log", 454, c) >>

\* The events the handler of lines 451-455 puts.
ExceptEvents(c) == << Ev("log", 454, c), Ev("error", 455, c) >>

\* A convert_app without the finally clause puts nothing on its way out.
NoFinallyEvents(c) == << >>

\* The events the finally clause of lines 457-458 puts.  The clause runs on
\* every way out of the try block: its end, the returns of lines 266, 277,
\* 283, 297 and 321, and the handler of line 451.
FinallyEvents(c) == << Ev("done", 458, c) >>

\* The events put from a return that follows a failed check of the request
\* to the end of the thread: the error of line e, the done of the line
\* after it (275-276, 281-282, 295-296, 319-320), and the finally clause.
RejectEvents(c, e) ==
    << Ev("error", e, c), Ev("done", e + 1, c) >> \o FinallyEvents(c)

\* The events put from a raise inside the try block to the end of the
\* thread: the handler of line 451, then the finally clause.
RaiseEvents(c) == ExceptEvents(c) \o FinallyEvents(c)

\* A convert_app that ignores what ensure_dependencies returns goes on.
AfterDependenciesNoReturn(installed) == "validate"

\* Lines 265-266: convert_app returns when ensure_dependencies returned True
\* (something was installed) and goes on to read the form otherwise.
AfterDependencies(installed) == IF installed THEN "exited" ELSE "validate"

\* ensure_dependencies, lines 140-182, called at line 265.  The dependency
\* is present: go on.  It is absent: the download and extraction either
\* succeed (shutdown is scheduled, True is returned and convert_app returns
\* at line 266) or the download raises (line 170) and dep_path stays absent.
EnsureDependencies(c) ==
    /\ ~destroyed
    /\ worker[c].pc = "deps"
    /\ widgetCalls' = widgetCalls \cup {DependencyLogThread}
    /\ \/ /\ depInstalled
          /\ Goto(c, AfterDependencies(FALSE))
          /\ UNCHANGED << depInstalled, destroyTimer, queue, posted >>
       \/ /\ ~depInstalled
          /\ depInstalled' = TRUE
          /\ destroyTimer' = c
          /\ worker' = [worker EXCEPT ![c].pc = AfterDependencies(TRUE),
                                      ![c].installed = TRUE]
          /\ Put(c, IF AfterDependencies(TRUE) = "exited"
                    THEN FinallyEvents(c) ELSE << >>)
       \/ /\ ~depInstalled
          /\ depInstalled' = FALSE
          /\ Goto(c, "exited")
          /\ Put(c, RaiseEvents(c))
          /\ UNCHANGED destroyTimer
    /\ UNCHANGED << form, nconv, nedits, destroyed, srcDir,
                    stubContent, outExists, buildExists, specExists,
                    artifactExists, consumed, consumedIn >>
    /\ UNCHANGED uiVars

\* Lines 268-287: the paths are read from the form and checked; progress 0
\* and two log lines are put when both are given and the source exists.
Validate(c) ==
    /\ ~destroyed
    /\ worker[c].pc = "validate"
    /\ LET src == form.source
           out == form.output
       IN  IF src = "" \/ out = ""
           THEN /\ Put(c, RejectEvents(c, 275))
                /\ worker' = [worker EXCEPT ![c].pc = "exited",
                                            ![c].source_path = src,
                                            ![c].output_path = out]
           ELSE IF src # "src"
           THEN /\ Put(c, RejectEvents(c, 281))
                /\ worker' = [worker EXCEPT ![c].pc = "exited",
                                            ![c].source_path = src,
                                            ![c].output_path = out]
           ELSE /\ Put(c, << Ev("progress", 0, c), Ev("log", 286, c),
                             Ev("log", 287, c) >>)
                /\ worker' = [worker EXCEPT ![c].pc = "scan",
                                            ![c].source_path = src,
                                            ![c].output_path = out]
    /\ UNCHANGED << form, nconv, nedits, destroyTimer, destroyed, consumed,
                    consumedIn, widgetCalls >>
    /\ UNCHANGED uiVars
    /\ UNCHANGED fsVars

\* Lines 289-310: the first .exe entry of the listing, else the first .py
\* entry, with a log line and progress 20; neither: error, done, return.
Scan(c) ==
    /\ ~destroyed
    /\ worker[c].pc = "scan"
    /\ LET exe_files == Filter(srcDir, "exe")
           py_files  == Filter(srcDir, "py")
       IN  IF exe_files = << >> /\ py_files = << >>
           THEN /\ Put(c, RejectEvents(c, 295))
                /\ Goto(c, "exited")
           ELSE IF exe_files # << >>
           THEN /\ Put(c, << Ev("log", 303, c), Ev("progress", 20, c) >>)
                /\ worker' = [worker EXCEPT ![c].pc = "mkout",
                                            ![c].main_file = exe_files[1],
                                            ![c].is_python = FALSE]
           ELSE /\ Put(c, << Ev("log", 308, c), Ev("progress", 20, c) >>)
                /\ worker' = [worker EXCEPT ![c].pc = "mkout",
                                            ![c].main_file = py_files[1],
                                            ![c].is_python = TRUE]
    /\ UNCHANGED << form, nconv, nedits, destroyTimer, destroyed, consumed,
                    consumedIn, widgetCalls >>
    /\ UNCHANGED uiVars
    /\ UNCHANGED fsVars

\* Lines 312-324: os.makedirs of a missing output directory succeeds or
\* raises (error, done, return); then a log line and progress 40.
PrepareOutput(c) ==
    /\ ~destroyed
    /\ worker[c].pc = "mkout"
    /\ \/ /\ outExists
          /\ Put(c, << Ev("log", 323, c), Ev("progress", 40, c) >>)
          /\ Goto(c, "stub")
          /\ UNCHANGED outExists
       \/ /\ ~outExists
          /\ outExists' = TRUE
          /\ Put(c, << Ev("log", 316, c), Ev("log", 323, c),
                       Ev("progress", 40, c) >>)
          /\ Goto(c, "stub")
       \/ /\ ~outExists
          /\ Put(c, RejectEvents(c, 319))
          /\ Goto(c, "exited")
          /\ UNCHANGED outExists
    /\ UNCHANGED << form, nconv, nedits, destroyTimer, destroyed,
                    depInstalled, srcDir, stubContent, buildExists,
                    specExists, artifactExists, consumed, consumedIn,
                    widgetCalls >>
    /\ UNCHANGED uiVars

\* Lines 326-397: launcher.py is written into the source directory (created
\* at some position of the listing, or overwritten), then a log line and
\* progress 60; a failing open or write is re-raised (line 394).
WriteStub(c) ==
    /\ ~destroyed
    /\ worker[c].pc = "stub"
    /\ \/ /\ IF Contains(srcDir, LauncherName)
             THEN UNCHANGED srcDir
             ELSE \E i \in 1..(Len(srcDir) + 1) :
                     srcDir' = InsertAt(srcDir, i, LauncherName)
          /\ stubContent' = [target    |-> worker[c].main_file,
                             is_python |-> worker[c].is_python]
          /\ Put(c, << Ev("log", 396, c), Ev("progress", 60, c) >>)
          /\ worker' = [worker EXCEPT ![c].pc = "configure",
                                      ![c].wroteStub = TRUE]
       \/ /\ Goto(c, "exited")
          /\ Put(c, RaiseEvents(c))
          /\ UNCHANGED << srcDir, stubContent >>
    /\ UNCHANGED << form, nconv, nedits, destroyTimer, destroyed,
                    depInstalled, outExists, buildExists, specExists,
                    artifactExists, consumed, consumedIn, widgetCalls >>
    /\ UNCHANGED uiVars

\* A handler of lines 426-428 without the raise lets the run fall through
\* to the puts of lines 448-449.
BundlerFailureSwallowed(c) ==
    << Ev("log", 448, c), Ev("success", 449, c) >> \o FinallyEvents(c)

\* The events put after PyInstaller.__main__.run raised: the handler of
\* lines 426-428 re-raises into the handler of line 451.
BundlerFailureEvents(c) == RaiseEvents(c)

\* A cleanup whose handler escalates puts the events of the handler of line
\* 451 in place of success when a removal raised.
CleanupEventsEscalated(c, k) ==
    IF k = 3
    THEN << Ev("log", 442, c), Ev("progress", 100, c),
            Ev("log", 448, c), Ev("success", 449, c) >>
    ELSE << Ev("log", 454, c), Ev("error", 455, c) >>

\* A cleanup that reports success before it removes anything.
CleanupEventsSuccessFirst(c, k) ==
    << Ev("log", 448, c), Ev("success", 449, c) >>
    \o (IF k = 3 THEN << Ev("log", 442, c), Ev("progress", 100, c) >>
        ELSE << >>)

\* A cleanup whose log line and progress 100 stand after the try block puts
\* them whether or not the removals succeeded.
CleanupEventsAfterTry(c, k) ==
    << Ev("log", 442, c), Ev("progress", 100, c),
       Ev("log", 448, c), Ev("success", 449, c) >>

\* The events put by lines 442-449 when k of the three removals of the
\* cleanup succeeded: the log line and progress 100 follow the removals
\* inside the try block, so they are put only when none raised.
CleanupEvents(c, k) ==
    (IF k = 3 THEN << Ev("log", 442, c), Ev("progress", 100, c) >>
     ELSE << >>)
    \o << Ev("log", 448, c), Ev("success", 449, c) >>

\* A configuration step that puts its log lines and no progress 80.
ConfigureEventsNoProgress(c, window) ==
    (IF window THEN << Ev("log", 416, c) >> ELSE << >>)
    \o << Ev("log", 419, c) >>

\* The events put by lines 413-420: the log line of the window mode when
\* the check box is on, then the log line and progress 80.
ConfigureEvents(c, window) ==
    (IF window THEN << Ev("log", 416, c) >> ELSE << >>)
    \o << Ev("log", 419, c), Ev("progress", 80, c) >>

\* A list that carries the windowed flag whatever the check box holds.
PyinstallerArgsWindowed(source_path, output_path, window) ==
    << source_path \o "/launcher.py", "--distpath", output_path,
       "--workpath", output_path \o "/build",
       "--specpath", output_path,
       "--onefile",
       "--add-data", source_path \o "/*;.",
       "--windowed" >>

\* pyinstaller_args, lines 404-414; temp_script is the path of line 327.
PyinstallerArgs(source_path, output_path, window) ==
    << source_path \o "/launcher.py", "--distpath", output_path,
       "--workpath", output_path \o "/build",
       "--specpath", output_path,
       "--onefile",
       "--add-data", source_path \o "/*;." >>
    \o (IF window THEN << "--windowed" >> ELSE << >>)

\* Lines 399-420: the import of PyInstaller succeeds or raises; the
\* arguments are built from the paths read at line 268 and from the check
\* box as it is now; log lines and progress 80 are put.
Configure(c) ==
    /\ ~destroyed
    /\ worker[c].pc = "configure"
    /\ \/ /\ worker' = [worker EXCEPT
                          ![c].pc = "run",
                          ![c].args = PyinstallerArgs(worker[c].source_path,
                                                      worker[c].output_path,
                                                      form.window)]
          /\ Put(c, ConfigureEvents(c, form.window))
       \/ /\ Goto(c, "exited")
          /\ Put(c, RaiseEvents(c))
    /\ UNCHANGED << form, nconv, nedits, destroyTimer, destroyed, consumed,
                    consumedIn, widgetCalls >>
    /\ UNCHANGED uiVars
    /\ UNCHANGED fsVars

\* Line 423: the bundler runs on the stub.  It returns, having written the
\* executable, the build directory and the spec file, or it raises, having
\* written the build directory and the spec file or nothing.
RunBundler(c) ==
    /\ ~destroyed
    /\ worker[c].pc = "run"
    /\ \/ /\ Contains(srcDir, LauncherName)
          /\ artifactExists' = TRUE
          /\ buildExists' = TRUE
          /\ specExists' = TRUE
          /\ worker' = [worker EXCEPT ![c].pc = "cleanup",
                                      ![c].bundlerRuns = @ + 1,
                                      ![c].bundlerOk = TRUE]
          /\ UNCHANGED << queue, posted >>
       \/ /\ \E partial \in BOOLEAN :
                /\ buildExists' = (buildExists \/ partial)
                /\ specExists' = (specExists \/ partial)
          /\ worker' = [worker EXCEPT ![c].pc = "exited",
                                      ![c].bundlerRuns = @ + 1,
                                      ![c].bundlerFailed = TRUE]
          /\ Put(c, BundlerFailureEvents(c))
          /\ UNCHANGED artifactExists
    /\ UNCHANGED << form, nconv, nedits, destroyTimer, destroyed,
                    depInstalled, srcDir, stubContent, outExists,
                    consumed, consumedIn, widgetCalls >>
    /\ UNCHANGED uiVars

\* Lines 430-449.  The stub, the build directory and the spec file are
\* removed in this order; k of the three steps succeed before one raises
\* (k = 3: none raises, and a log line and progress 100 are put).  The
\* handler of line 444 only warns, and success is put in either case.
Cleanup(c) ==
    /\ ~destroyed
    /\ worker[c].pc = "cleanup"
    /\ \E k \in 0..3 :
          /\ (k >= 1) => Contains(srcDir, LauncherName)
          /\ (k = 1) => buildExists
          /\ (k = 2) => specExists
          /\ srcDir' = IF k >= 1 THEN Remove(srcDir, LauncherName) ELSE srcDir
          /\ buildExists' = IF k >= 2 THEN FALSE ELSE buildExists
          /\ specExists' = IF k >= 3 THEN FALSE ELSE specExists
          /\ Put(c, CleanupEvents(c, k) \o FinallyEvents(c))
    /\ Goto(c, "exited")
    /\ UNCHANGED << form, nconv, nedits, destroyTimer, destroyed,
                    depInstalled, stubContent, outExists, artifactExists,
                    consumed, consumedIn, widgetCalls >>
    /\ UNCHANGED uiVars

\* One step of the thread of run c.
WorkerStep(c) ==
    \/ EnsureDependencies(c)
    \/ Validate(c)
    \/ Scan(c)
    \/ PrepareOutput(c)
    \/ WriteStub(c)
    \/ Configure(c)
    \/ RunBundler(c)
    \/ Cleanup(c)

Next ==
    \/ StartConversion
    \/ CheckQueue
    \/ SetSource
    \/ SetOutput
    \/ ToggleWindow
    \/ Destroy
    \/ \E c \in Conv : WorkerStep(c)

Spec == Init /\ [][Next]_vars

\* A pending timer callback runs and a started thread keeps running: the
\* Tk main loop and the thread scheduler are fair.  The user is not.
FairSpec ==
    /\ Init
    /\ [][Next]_vars
    /\ WF_vars(CheckQueue)
    /\ WF_vars(Destroy)
    /\ \A c \in Conv : WF_vars(WorkerStep(c))

(* ------------------------------ properties ------------------------------ *)

\* Run c has been started and its record is kept.
Tracked(c) == worker[c].pc \notin {"idle", "collected"}

\* The thread of run c has ended and no start press came since.
Exited(c) == worker[c].pc = "exited"

\* No thread of a run other than c is running.
Alone(c) == \A d \in Conv \ {c} : ~Alive(d)

\* Every error event of evs has a done event after it.
ErrorThenDone(evs) ==
    \A i \in 1..Len(evs) :
        evs[i].kind = "error" =>
            \E j \in (i + 1)..Len(evs) : evs[j].kind = "done"

\* evs holds an error event, and it stands before every done event.
ErrorBeforeDone(evs) ==
    \E i \in 1..Len(evs) :
        /\ evs[i].kind = "error"
        /\ \A j \in 1..Len(evs) : evs[j].kind = "done" => i < j

\* The stub, the build directory and the spec file are all absent.
TempFilesAbsent ==
    /\ ~Contains(srcDir, LauncherName)
    /\ ~buildExists
    /\ ~specExists

\* C1: every run of convert_app posts exactly one done event, on every way
\* out: never more than one, and one once its thread has ended.
C1_ExactlyOneDone ==
    \A c \in Conv :
        /\ CountKind(posted[c], "done") <= 1
        /\ Exited(c) => CountKind(posted[c], "done") = 1

\* C2: at most one worker thread is alive at any time, and the start
\* control is disabled (is_converting set) whenever one is alive.
C2_OneWorkerControlDisabled ==
    /\ Cardinality({c \in Conv : Alive(c)}) <= 1
    /\ (\E c \in Conv : Alive(c)) => is_converting /\ button = "disabled"

C4_NoCrossConversion ==
    /\ \A p \in consumedIn : p[1] = p[2]
    /\ \A c \in Conv : Tracked(c) => IsPrefix(consumed[c], posted[c])

\* C5: every posted event is consumed without a further start press: when
\* no thread is running and no poll is scheduled, the queue is empty.
C5_QueueDrained ==
    ((\A c \in Conv : ~Alive(c)) /\ pollTimers = 0) => queue = << >>

\* C7: the worker thread never calls into a widget; only the UI thread
\* does.
C7_WidgetsOnUIThreadOnly == "worker" \notin widgetCalls

\* C8: a run that wrote the stub launcher.py has deleted it by the time its
\* thread ends, whether or not the conversion succeeded.
C8_StubDeleted ==
    \A c \in Conv :
        (Exited(c) /\ worker[c].wroteStub /\ Alone(c)) =>
            ~Contains(srcDir, LauncherName)

ControlEnabled == ~is_converting /\ button = "normal"

\* C6 as stated: every error event a run posts is followed by a done event
\* of that run, and under fair polling every accepted start press leads to
\* the start control being enabled again with is_converting false.
C6_AlwaysReenabled ==
    /\ [](\A c \in Conv : ErrorThenDone(posted[c]))
    /\ (is_converting ~> ControlEnabled)

\* C6: every error event a run posts is followed by a done event of that
\* run, and under fair polling every accepted start press leads to the
\* start control being enabled again with is_converting false, unless the
\* window is destroyed first by the shutdown an install has scheduled.
C6_ReenabledUnlessDestroyed ==
    /\ [](\A c \in Conv : ErrorThenDone(posted[c]))
    /\ (is_converting ~> (ControlEnabled \/ destroyed))

\* C6 witness: the error and the done of a run were taken from the queue
\* and the start control is enabled again.
C6_Witness ==
    /\ ControlEnabled
    /\ ~destroyed
    /\ \E c \in Conv : /\ HasKind(consumed[c], "error")
                       /\ HasKind(consumed[c], "done")
                       /\ <<c, c>> \in consumedIn

\* Run c has put progress 100.
PostedFullProgress(evs) ==
    \E i \in 1..Len(evs) : evs[i].kind = "progress" /\ evs[i].val = 100

C10_CleanWhenFullProgress ==
    \A c \in Conv :
        (~PostedFullProgress(posted[c]) /\ PostedFullProgress(posted'[c])) =>
            /\ ~Contains(srcDir', LauncherName)
            /\ ~buildExists'
            /\ ~specExists'

RECURSIVE ProgressValues(_)
\* The percentages of the progress events of evs, in order.
ProgressValues(evs) ==
    IF evs = << >> THEN << >>
    ELSE (IF Head(evs).kind = "progress" THEN << Head(evs).val >> ELSE << >>)
         \o ProgressValues(Tail(evs))

\* The milestones of a conversion.
Milestones == << 0, 20, 40, 60, 80, 100 >>

\* evs ends with one success event followed by one done event, and holds
\* no other success or done event.
EndsSuccessDone(evs) ==
    /\ Len(evs) >= 2
    /\ evs[Len(evs) - 1].kind = "success"
    /\ evs[Len(evs)].kind = "done"
    /\ CountKind(evs, "success") = 1
    /\ CountKind(evs, "done") = 1

\* The bundler call of run c returned and a removal of its cleanup raised.
CleanupFailed(c) ==
    /\ Exited(c)
    /\ worker[c].bundlerOk
    /\ ~PostedFullProgress(posted[c])

\* C11: cleanup is best-effort: a run whose bundler call returned and whose
\* removal of the stub, the build directory or the spec file raised posts no
\* error event and ends with success followed by done.
C11_CleanupBestEffort ==
    \A c \in Conv :
        CleanupFailed(c) =>
            /\ ~HasKind(posted[c], "error")
            /\ EndsSuccessDone(posted[c])

\* C11 witness: a run has ended whose cleanup removed the stub and then
\* failed to remove the build directory.
C11_Witness ==
    \E c \in Conv :
        /\ CleanupFailed(c)
        /\ Alone(c)
        /\ ~Contains(srcDir, LauncherName)
        /\ buildExists

\* C12 as stated: a run that posts success has put the progress values 0,
\* 20, 40, 60, 80, 100 in this order, each once, then success, then done,
\* and the output directory holds no build directory and no spec file.
C12_FullSequenceOnSuccess ==
    \A c \in Conv :
        (Exited(c) /\ Alone(c) /\ HasKind(posted[c], "success")) =>
            /\ ProgressValues(posted[c]) = Milestones
            /\ EndsSuccessDone(posted[c])
            /\ ~buildExists
            /\ ~specExists

\* The step in which a run puts progress 100 puts success with it and
\* leaves no build directory and no spec file.
C12_FullProgressStep ==
    \A c \in Conv :
        (~PostedFullProgress(posted[c]) /\ PostedFullProgress(posted'[c])) =>
            /\ HasKind(posted'[c], "success")
            /\ ~buildExists'
            /\ ~specExists'

\* C12: a run that posts success has put the progress values 0, 20, 40, 60,
\* 80 in this order, each once, and after them 100 when all removals of the
\* cleanup succeeded and nothing when one raised; its last two events are
\* success and done; when it puts 100 the output directory holds no build
\* directory and no spec file.
C12_SequenceOnSuccess ==
    /\ [](\A c \in Conv :
            HasKind(posted[c], "success") =>
                /\ \/ ProgressValues(posted[c]) = Milestones
                   \/ ProgressValues(posted[c]) = SubSeq(Milestones, 1, 5)
                /\ EndsSuccessDone(posted[c]))
    /\ [][C12_FullProgressStep]_vars

\* C12 witness: a run has ended with success after all six milestones, and
\* neither the build directory nor the spec file is left.
C12_Witness ==
    \E c \in Conv :
        /\ Exited(c)
        /\ HasKind(posted[c], "success")
        /\ ProgressValues(posted[c]) = Milestones
        /\ ~buildExists
        /\ ~specExists

\* No entry of the listing ends in .exe or in .py.
NoCandidate(listing) ==
    \A i \in 1..Len(listing) : listing[i].ext \notin {"exe", "py"}

\* Run c has put the not-found error of line 295.
PostedNotFound(evs) ==
    \E i \in 1..Len(evs) : evs[i].kind = "error" /\ evs[i].val = 295

\* The scan of a directory without candidate ends the run with the
\* not-found error and changes nothing in the file system.
C13_ScanStep ==
    \A c \in Conv :
        (worker[c].pc = "scan" /\ worker'[c].pc # "scan"
         /\ NoCandidate(srcDir)) =>
            /\ worker'[c].pc = "exited"
            /\ PostedNotFound(posted'[c])
            /\ UNCHANGED fsVars

\* C13: when the source directory holds no entry ending in .exe and none
\* ending in .py, the scan puts the not-found error and the run ends there:
\* it creates no output directory, writes no stub and does not invoke the
\* bundler.
C13_ScanNotFound ==
    /\ [](\A c \in Conv :
            PostedNotFound(posted[c]) =>
                /\ Exited(c)
                /\ ~worker[c].wroteStub
                /\ worker[c].bundlerRuns = 0
                /\ ProgressValues(posted[c]) = << 0 >>
                /\ \A i \in 1..Len(posted[c]) :
                      posted[c][i].val \notin {316, 323, 396})
    /\ [][C13_ScanStep]_vars

\* C13 witness: a run has scanned a directory that holds only a text file
\* and has ended with the not-found error.
C13_Witness ==
    \E c \in Conv :
        /\ Exited(c)
        /\ PostedNotFound(posted[c])
        /\ NoCandidate(srcDir)
        /\ srcDir # << >>

\* Run c has put the error of line 319 (os.makedirs raised).
PostedMkdirError(evs) ==
    \E i \in 1..Len(evs) : evs[i].kind = "error" /\ evs[i].val = 319

\* C14: the output directory exists when the stub is written, and a run
\* whose creation of the output directory failed has put one error and one
\* done, has written no stub and has not invoked the bundler.
C14_OutputCreatedOrErrorPair ==
    \A c \in Conv :
        /\ worker[c].wroteStub => outExists
        /\ PostedMkdirError(posted[c]) =>
              /\ CountKind(posted[c], "error") = 1
              /\ CountKind(posted[c], "done") = 1
              /\ ~worker[c].wroteStub
              /\ worker[c].bundlerRuns = 0

\* Position of the first entry of the listing with extension e.
FirstWithExt(listing, e) ==
    CHOOSE i \in 1..Len(listing) :
        /\ listing[i].ext = e
        /\ \A j \in 1..(i - 1) : listing[j].ext # e

\* The reference result of a scan: the first .exe entry as an executable
\* when there is one, else the first .py entry as a script.
ScanReference(listing) ==
    IF \E i \in 1..Len(listing) : listing[i].ext = "exe"
    THEN [file |-> listing[FirstWithExt(listing, "exe")],
          kind |-> "executable"]
    ELSE [file |-> listing[FirstWithExt(listing, "py")],
          kind |-> "script"]

\* The result the scan of run c has stored in main_file and is_python.
ScanResult(w) ==
    [file |-> w.main_file,
     kind |-> IF w.is_python THEN "script" ELSE "executable"]

\* A scan of a listing that holds a candidate goes on with the reference
\* result, and no scan goes on without one.
C15_ScanStep ==
    \A c \in Conv :
        (worker[c].pc = "scan" /\ worker'[c].pc # "scan") =>
            IF NoCandidate(srcDir)
            THEN worker'[c].pc = "exited"
            ELSE /\ worker'[c].pc = "mkout"
                 /\ ScanResult(worker'[c]) = ScanReference(srcDir)

\* C15: for every listing the scan result is the first entry ending in
\* .exe, as an executable, when there is one, and else the first entry
\* ending in .py, as a script.
C15_ScanEqualsReference == [][C15_ScanStep]_vars

\* C15 witness: a scan of a listing that starts with a script and holds two
\* executables has chosen the first executable.
C15_Witness ==
    \E c \in Conv :
        /\ worker[c].pc = "mkout"
        /\ srcDir[1].ext = "py"
        /\ Len(Filter(srcDir, "exe")) = 2
        /\ ScanResult(worker[c]) =
              [file |-> File("app", "exe"), kind |-> "executable"]

\* Run c has read the paths from the form (lines 268-269).
Validated(c) ==
    \E i \in 1..Len(posted[c]) : posted[c][i].val \in {0, 275, 281}

\* The argument list holds the windowed flag.
HasWindowedFlag(args) == \E i \in 1..Len(args) : args[i] = "--windowed"

\* C16: the paths and the window mode a run works with are those the form
\* held when start was pressed.
C16_RequestFixedAtPress ==
    \A c \in Conv :
        /\ Validated(c) =>
              /\ worker[c].source_path = worker[c].request.source
              /\ worker[c].output_path = worker[c].request.output
        /\ worker[c].args # << >> =>
              (HasWindowedFlag(worker[c].args) <=> worker[c].request.window)

\* The argument that follows the option opt in args, "" when opt is not
\* in args or is its last element.
ArgAfter(args, opt) ==
    IF \E i \in 1..(Len(args) - 1) : args[i] = opt
    THEN args[(CHOOSE i \in 1..(Len(args) - 1) : args[i] = opt) + 1]
    ELSE ""

\* The argument list built by a configuration step holds the windowed flag
\* exactly when the check box is on, and in both cases the stub path, the
\* output directory as dist path and spec path, its build subdirectory as
\* work path, the one-file flag and the add-data of the source directory.
C17_ConfigureStep ==
    \A c \in Conv :
        (worker[c].pc = "configure" /\ worker'[c].pc = "run") =>
            LET a   == worker'[c].args
                src == worker[c].source_path
                out == worker[c].output_path
            IN  /\ HasWindowedFlag(a) <=> form.window
                /\ a[1] = src \o "/launcher.py"
                /\ ArgAfter(a, "--distpath") = out
                /\ ArgAfter(a, "--workpath") = out \o "/build"
                /\ ArgAfter(a, "--specpath") = out
                /\ \E i \in 1..Len(a) : a[i] = "--onefile"
                /\ ArgAfter(a, "--add-data") = src \o "/*;."

\* C17: the bundler argument list holds the windowed flag if and only if
\* window mode is on, and the other arguments are there in both cases.
C17_WindowedFlagIffWindowMode == [][C17_ConfigureStep]_vars

\* C17 witness: a run has built its argument list with the window mode on,
\* and the list holds the windowed flag.
C17_Witness ==
    \E c \in Conv :
        /\ worker[c].pc = "run"
        /\ form.window
        /\ HasWindowedFlag(worker[c].args)

\* The thread of run c has ended inside ensure_dependencies or at the
\* return of line 266: the dependency was absent when the run checked it.
EndedAtDependencies(c) == Exited(c) /\ ~Validated(c)

\* C18 as stated: a run that found the dependency absent ends early with
\* done and without success or error, having scheduled the shutdown.
C18_EarlyExitWhenMissing ==
    \A c \in Conv :
        EndedAtDependencies(c) =>
            /\ posted[c] = FinallyEvents(c)
            /\ destroyTimer = c
            /\ ~worker[c].wroteStub
            /\ worker[c].bundlerRuns = 0

\* A run that finds the dependency present goes on to read the form.
C18_DependenciesStep ==
    \A c \in Conv :
        (worker[c].pc = "deps" /\ worker'[c].pc # "deps" /\ depInstalled) =>
            /\ worker'[c].pc = "validate"
            /\ posted'[c] = << >>
            /\ UNCHANGED destroyTimer

\* C18: a run that installed the dependency ends early: it puts done and
\* nothing else, schedules the shutdown, and does not scan, create the
\* output directory, write the stub or invoke the bundler; a run whose
\* download raised puts error and done and schedules nothing; a run that
\* found the dependency present goes on to validation.
C18_EarlyExitAfterInstall ==
    /\ [](\A c \in Conv :
            /\ worker[c].installed =>
                  /\ EndedAtDependencies(c)
                  /\ posted[c] = FinallyEvents(c)
                  /\ destroyTimer = c
                  /\ ~worker[c].wroteStub
                  /\ worker[c].bundlerRuns = 0
                  /\ worker[c].main_file = NoFile
            /\ (EndedAtDependencies(c) /\ ~worker[c].installed) =>
                  /\ ErrorBeforeDone(posted[c])
                  /\ CountKind(posted[c], "done") = 1
                  /\ ~HasKind(posted[c], "success")
                  /\ destroyTimer # c)
    /\ [][C18_DependenciesStep]_vars

\* C18 witness: a run has installed the dependency and ended, its done has
\* been taken, and the shutdown it scheduled is pending.
C18_Witness ==
    \E c \in Conv :
        /\ worker[c].installed
        /\ Exited(c)
        /\ destroyTimer = c
        /\ consumed[c] = FinallyEvents(c)
        /\ ~destroyed

\* C19: the progress values a run has put are a prefix of 0, 20, 40, 60,
\* 80, 100, whatever the outcome, and the bundler has been invoked only in
\* a run that has put progress 80.
C19_ProgressPrefix ==
    \A c \in Conv :
        /\ IsPrefix(ProgressValues(posted[c]), Milestones)
        /\ worker[c].bundlerRuns > 0 =>
              \E i \in 1..Len(posted[c]) :
                  posted[c][i].kind = "progress" /\ posted[c][i].val = 80

\* C19 witness: a run has ended in a bundler failure after the progress
\* values 0, 20, 40, 60, 80.
C19_Witness ==
    \E c \in Conv :
        /\ Exited(c)
        /\ worker[c].bundlerRuns = 1
        /\ ~worker[c].bundlerOk
        /\ ProgressValues(posted[c]) = SubSeq(Milestones, 1, 5)

\* C20: no scan selects launcher.py as its target, and no stub launches
\* launcher.py.
C20_StubNeverSelected ==
    /\ \A c \in Conv : worker[c].main_file # LauncherName
    /\ stubContent.target # LauncherName

\* C21: no run posts both a success and an error event, a run posts each
\* at most once, and a run that has posted success is one whose single
\* bundler call returned without raising.
C21_SuccessXorError ==
    \A c \in Conv :
        /\ ~(HasKind(posted[c], "success") /\ HasKind(posted[c], "error"))
        /\ CountKind(posted[c], "success") <= 1
        /\ CountKind(posted[c], "error") <= 1
        /\ HasKind(posted[c], "success") =>
              /\ worker[c].bundlerRuns = 1
              /\ worker[c].bundlerOk
              /\ ~worker[c].bundlerFailed

\* C21 witness: a run whose bundler call returned has ended with one
\* success event and no error event, and both were taken from the queue.
C21_Witness ==
    \E c \in Conv :
        /\ Exited(c)
        /\ worker[c].bundlerOk
        /\ CountKind(consumed[c], "success") = 1
        /\ CountKind(posted[c], "error") = 0
        /\ consumed[c] = posted[c]

====
